---- MODULE Spec2Model ----
(***************************************************************************)
(* A model of the per-connection RPC engine of rpc/rpc_impl.hh: one client *)
(* connection and the server connection it talks to.  Client calls are     *)
(* marshalled into request frames, queued, written to the stream, read by  *)
(* the server's read loop, admitted against the memory budget, run under   *)
(* the reply gate, answered, and correlated by the client's read loop.     *)
(***************************************************************************)
EXTENDS Integers, Sequences, FiniteSets, TLC

(***************************************************************************)
(* Bounds of the model.                                                    *)
(***************************************************************************)
\* calls issued on the client connection
MaxCalls == 2
\* frames a non-conforming peer puts on the client's input stream
MaxInject == 1
\* resource_limits::max_memory of the server
MaxMemory == 45
\* the bookkeeping overhead estimate_request_size adds to the payload length
BasicRequestSize == 20

(***************************************************************************)
(* Program constants.                                                      *)
(***************************************************************************)
\* exception_type::USER
USER == 0
\* exception_type::UNKNOWN_VERB
UNKNOWN_VERB == 1
\* the weight admitted for the reply to an unknown verb
UnknownVerbWeight == 28

None == [none |-> TRUE]

Byte == 0..255

(***************************************************************************)
(* Little-endian integers: write_le<T> / read_le<T>.                       *)
(***************************************************************************)
RECURSIVE write_le(_, _)
write_le(n, width) ==
    IF width = 0 THEN <<>> ELSE <<n % 256>> \o write_le(n \div 256, width - 1)

RECURSIVE read_le(_)
read_le(bytes) ==
    IF bytes = <<>> THEN 0 ELSE Head(bytes) + 256 * read_le(Tail(bytes))

Take(s, n) == SubSeq(s, 1, n)
Drop(s, n) == SubSeq(s, n + 1, Len(s))

(***************************************************************************)
(* The user's Serializer: an int is one byte.  read fails on an empty      *)
(* input.                                                                  *)
(***************************************************************************)
SerWrite(v) == <<v % 256>>

\* (mutant) the arguments are written last to first
RECURSIVE do_marshall_reversed(_)
do_marshall_reversed(args) ==
    IF args = <<>> THEN <<>>
    ELSE do_marshall_reversed(Tail(args)) \o SerWrite(Head(args))

\* marshall_one / do_marshall: the arguments in order
RECURSIVE do_marshall(_)
do_marshall(args) ==
    IF args = <<>> THEN <<>> ELSE SerWrite(Head(args)) \o do_marshall(Tail(args))

\* marshall: head_space bytes are reserved for the header, which the framing
\* layer fills in place; the payload is what follows them
marshall(args) == do_marshall(args)

\* (mutant) an optional is read as the value it wraps
unmarshal_one_required(ty, in) ==
    IF Len(in) # 0
    THEN [ok |-> TRUE, val |-> IF ty = "opt_int" THEN <<Head(in)>> ELSE Head(in), rest |-> Tail(in)]
    ELSE [ok |-> FALSE, val |-> 0, rest |-> in]

\* unmarshal_one for T and for optional<T>: [ok, val, rest]
unmarshal_one(ty, in) ==
    IF ty = "opt_int"
    THEN IF Len(in) # 0
         THEN [ok |-> TRUE, val |-> <<Head(in)>>, rest |-> Tail(in)]
         ELSE [ok |-> TRUE, val |-> <<>>, rest |-> in]
    ELSE IF Len(in) # 0
         THEN [ok |-> TRUE, val |-> Head(in), rest |-> Tail(in)]
         ELSE [ok |-> FALSE, val |-> 0, rest |-> in]

\* do_unmarshall / unmarshall: [ok, vals]; ok = FALSE when the serializer throws
RECURSIVE do_unmarshall(_, _)
do_unmarshall(types, in) ==
    IF types = <<>> THEN [ok |-> TRUE, vals |-> <<>>]
    ELSE LET first == unmarshal_one(Head(types), in)
             rest == do_unmarshall(Tail(types), first.rest)
         IN  IF first.ok /\ rest.ok
             THEN [ok |-> TRUE, vals |-> <<first.val>> \o rest.vals]
             ELSE [ok |-> FALSE, vals |-> <<>>]

unmarshall(types, input) == do_unmarshall(types, input)

(***************************************************************************)
(* Exception records.                                                      *)
(***************************************************************************)
\* (mutant) the length field is left zero
UserRecordNoLength(msg) == write_le(USER, 4) \o write_le(0, 4) \o msg

\* reply(wait_type), catch branch: kind USER, length, the what() string
UserRecord(msg) == write_le(USER, 4) \o write_le(Len(msg), 4) \o msg

\* (mutant) the record is given the kind of a user exception
UnknownVerbRecordAsUser(type) ==
    write_le(USER, 4) \o write_le(8, 4) \o write_le(type, 8)

\* process(), unknown verb branch: kind UNKNOWN_VERB, length 8, the type
UnknownVerbRecord(type) ==
    write_le(UNKNOWN_VERB, 4) \o write_le(8, 4) \o write_le(type, 8)

\* (mutant) a kind that is not known is a protocol error
UnknownKindThrows == [thrown |-> TRUE, kind |-> "rpc_protocol_error", msg |-> <<>>, type |-> 0]

\* unmarshal_exception, default branch of the switch on the kind
UnknownKind == [thrown |-> FALSE, kind |-> "unknown_exception_error", msg |-> <<>>, type |-> 0]

\* unmarshal_exception: [thrown, kind, ...]; thrown = TRUE is the
\* rpc_protocol_error of a record that is too short
unmarshal_exception(data) ==
    IF Len(data) < 4 THEN [thrown |-> TRUE, kind |-> "rpc_protocol_error", msg |-> <<>>, type |-> 0]
    ELSE IF Len(data) < 8 THEN [thrown |-> TRUE, kind |-> "rpc_protocol_error", msg |-> <<>>, type |-> 0]
    ELSE LET ex_type == read_le(Take(data, 4))
             ex_len == read_le(Take(Drop(data, 4), 4))
             body == Drop(data, 8)
         IN  CASE ex_type = USER ->
                    IF Len(body) < ex_len
                    THEN [thrown |-> TRUE, kind |-> "rpc_protocol_error", msg |-> <<>>, type |-> 0]
                    ELSE [thrown |-> FALSE, kind |-> "runtime_error", msg |-> Take(body, ex_len), type |-> 0]
              [] ex_type = UNKNOWN_VERB ->
                    IF Len(body) < 8
                    THEN [thrown |-> TRUE, kind |-> "rpc_protocol_error", msg |-> <<>>, type |-> 0]
                    ELSE [thrown |-> FALSE, kind |-> "unknown_verb_error", msg |-> <<>>, type |-> read_le(Take(body, 8))]
              [] OTHER -> UnknownKind

(***************************************************************************)
(* The protocol registry: _handlers.  Type 1 is a wait-mode handler        *)
(* int(int) returning its argument plus one, type 2 a no_wait handler,     *)
(* type 3 a wait-mode handler int(int, int, optional<int>) returning its   *)
(* first argument plus one; type 9 is registered by nobody.                *)
(***************************************************************************)
_handlers ==
    (1 :> [style |-> "wait", args |-> <<"int">>]) @@
    (2 :> [style |-> "no_wait", args |-> <<"int">>]) @@
    (3 :> [style |-> "wait", args |-> <<"int", "int", "opt_int">>])

\* the registered function of a wait-mode handler
func(args) == <<(args[1] + 1) % 256>>

\* what() of the exception a failing handler throws
Boom == <<98, 111, 111, 109>>

\* how a handler's future resolves: with a value, with an exception derived
\* from std::exception, or with an exception of any other type
Outcomes == {"value", "std_exception", "other_exception"}

(***************************************************************************)
(* The calls a client makes: the message type, the wait-mode and return    *)
(* types of the client's declared signature, the arguments, and the call   *)
(* shape (plain, with a deadline, with a cancellation token).              *)
(***************************************************************************)
CallKinds ==
    { [type |-> 1, style |-> "wait", ret |-> <<"int">>, args |-> <<1>>, opt |-> o] :
          o \in {"none", "deadline", "cancel"} }
    \cup
    { [type |-> 1, style |-> "wait", ret |-> <<"int">>, args |-> <<>>, opt |-> "none"],
      [type |-> 2, style |-> "no_wait", ret |-> <<>>, args |-> <<1>>, opt |-> "none"],
      [type |-> 9, style |-> "wait", ret |-> <<"int">>, args |-> <<1>>, opt |-> "none"],
      [type |-> 9, style |-> "no_wait", ret |-> <<>>, args |-> <<1>>, opt |-> "none"] }

Ids == 1..MaxCalls

(***************************************************************************)
(* Frames.  A frame is written to the stream as its header followed by its *)
(* payload; both chunks carry the frame's id so that the stream can be     *)
(* inspected.                                                              *)
(***************************************************************************)
Frame(type, id, size, payload) == [type |-> type, id |-> id, size |-> size, payload |-> payload]

\* (mutant) the header carries the id the counter starts at, not the id
\* allocated for this call
request_frame_first_id(t, msg_id, data) == Frame(t, 1, Len(data), data)

\* (mutant) the type and the id are written to each other's place
request_frame_swapped(t, msg_id, data) == Frame(msg_id, t, Len(data), data)

\* send_helper::shelper::send fills the request header in the buffer that
\* marshall returned: the type, the id, the payload length
request_frame(t, msg_id, data) == Frame(t, msg_id, Len(data), data)

\* (mutant) the length written is that of the buffer, header included
response_frame_whole_size(msg_id, data) == Frame(0, msg_id, Len(data) + 12, data)

\* connection::respond fills the response header: the id, the payload length
response_frame(msg_id, data) == Frame(0, msg_id, Len(data), data)

HdrChunk(f) == [part |-> "hdr", type |-> f.type, id |-> f.id, size |-> f.size, bytes |-> <<>>,
                env |-> None, expire |-> None]
BodyChunk(f) == [part |-> "body", type |-> f.type, id |-> f.id, size |-> f.size, bytes |-> f.payload,
                 env |-> None, expire |-> None]

\* the send loop's compress step: with a compressor, what is written is the
\* 4-byte length of the compressed bytes and the compressed bytes; env is the
\* compressor whose envelope a chunk is in, None for a chunk written as it is
compress(compressor, chunk) == [chunk EXCEPT !.env = compressor]

\* read_frame_compressed on a stream that holds a whole frame: with a
\* compressor the envelope is read and its content decompressed, without one
\* the frame is read as it is.  ok = FALSE when what is on the stream is not
\* what this reader takes it for (an envelope of another making, or none, or
\* one where none is expected): what it then decodes is not a frame the peer
\* sent, and the read is taken to fail.
read_frame_compressed(compressor, stream) ==
    [ok |-> stream[1].env = compressor /\ stream[2].env = compressor,
     head |-> stream[1], data |-> stream[2]]

\* the request header as the client's send loop writes it: with the timeout
\* feature negotiated the 8-byte expiration field (milliseconds, 0 for none)
\* precedes the 20 bytes of type, id and length; without it the 8 bytes
\* reserved for it are left off.  expire is None in the 20-byte layout.
with_expiration(timeout_negotiated, chunk, ms) ==
    [chunk EXCEPT !.expire = IF timeout_negotiated THEN [ms |-> ms] ELSE None]

\* server::connection::read_request_frame_compressed: the header is read as
\* request_frame_with_timeout (28 bytes, the expiration first) when the
\* timeout feature was negotiated, as request_frame (20 bytes) otherwise.
\* ok = FALSE also when the header on the stream is in the other layout: the
\* fields are then decoded from the wrong bytes, and the read is taken to
\* fail.
read_request_frame_compressed(timeout_negotiated, compressor, stream) ==
    LET f == read_frame_compressed(compressor, stream)
    IN  [ok |-> f.ok /\ ((stream[1].expire # None) <=> timeout_negotiated),
         expire |-> stream[1].expire, head |-> f.head, data |-> f.data]

Abs(n) == IF n < 0 THEN -n ELSE n

(***************************************************************************)
(* Negotiation.  The negotiation frame is the 8 bytes of rpc_magic, the    *)
(* length of the feature records, and the feature records: a feature id, a *)
(* length, the feature's data.  On the stream its 12-byte header is one    *)
(* chunk (the magic in bytes, the length in size) and the records another. *)
(***************************************************************************)
rpc_magic == <<83, 83, 84, 65, 82, 82, 80, 67>>

\* protocol_features
COMPRESS == 0
TIMEOUT == 1

\* the feature records of a feature map, given as a sequence of [id, data]
RECURSIVE FeatureRecords(_)
FeatureRecords(features) ==
    IF features = <<>> THEN <<>>
    ELSE write_le(Head(features).id, 4) \o write_le(Len(Head(features).data), 4)
             \o Head(features).data \o FeatureRecords(Tail(features))

\* send_negotiation_frame: the buffer handed to c.send_negotiation_frame
send_negotiation_frame(features) ==
    LET extra == FeatureRecords(features)
    IN  [magic |-> rpc_magic, len |-> Len(extra), extra |-> extra]

NegHdrChunk(n) == [part |-> "hdr", type |-> 0, id |-> 0, size |-> n.len, bytes |-> n.magic,
                   env |-> None, expire |-> None]
NegBodyChunk(n) == [part |-> "body", type |-> 0, id |-> 0, size |-> n.len, bytes |-> n.extra,
                    env |-> None, expire |-> None]

\* (mutant) a feature record is taken as far as the buffer goes
ParseFeaturesLenient(extra) == [ok |-> TRUE, map |-> <<>>, log |-> ""]

\* the loop of receive_negotiation_frame over the feature records
RECURSIVE ParseFeatures(_)
ParseFeatures(extra) ==
    IF extra = <<>> THEN [ok |-> TRUE, map |-> <<>>, log |-> ""]
    ELSE IF Len(extra) < 8
    THEN [ok |-> FALSE, map |-> <<>>, log |-> "bad feature data format in negotiation frame"]
    ELSE LET feature == read_le(Take(extra, 4))
             f_len == read_le(Take(Drop(extra, 4), 4))
             p == Drop(extra, 8)
         IN  IF f_len > Len(p)
             THEN [ok |-> FALSE, map |-> <<>>,
                   log |-> "buffer underflow in feature data in negotiation frame"]
             ELSE LET rest == ParseFeatures(Drop(p, f_len))
                  IN  IF rest.ok
                      THEN [ok |-> TRUE, log |-> "",
                            map |-> <<[id |-> feature, data |-> Take(p, f_len)]>> \o rest.map]
                      ELSE rest

\* (mutant) the magic is not compared
receive_negotiation_frame_any_magic(stream) ==
    IF Len(stream) = 0 THEN [ok |-> FALSE, map |-> <<>>, log |-> "", read |-> 0]
    ELSE IF Len(stream) = 1 \/ Len(stream[2].bytes) # stream[1].size
    THEN [ok |-> FALSE, map |-> <<>>, log |-> "unexpected eof during negotiation frame", read |-> 1]
    ELSE ParseFeatures(stream[2].bytes) @@ [read |-> 2]

\* receive_negotiation_frame on what the stream holds when the read
\* completes: [ok, map, log, read], read being the chunks consumed.  The future
\* fails with closed_error when ok is FALSE.
receive_negotiation_frame(stream) ==
    IF Len(stream) = 0
    THEN \* eof: verify_frame logs nothing for an empty read
         [ok |-> FALSE, map |-> <<>>, log |-> "", read |-> 0]
    ELSE IF stream[1].bytes # rpc_magic
    THEN [ok |-> FALSE, map |-> <<>>, log |-> "wrong protocol magic", read |-> 1]
    ELSE IF Len(stream) = 1 \/ Len(stream[2].bytes) # stream[1].size
    THEN [ok |-> FALSE, map |-> <<>>, log |-> "unexpected eof during negotiation frame", read |-> 1]
    ELSE ParseFeatures(stream[2].bytes) @@ [read |-> 2]

\* the compressor factories an endpoint may be configured with: supported()
\* is the feature payload, one byte for each algorithm the factory offers
Factories == {[supported |-> <<1>>], [supported |-> <<2>>]}

\* compressor_factory::negotiate(feature, is_server): a compressor for an
\* algorithm both sides offer, none when there is no such algorithm
FactoryNegotiate(factory, feature, is_server) ==
    LET common == {a \in 1..255 : /\ \E j \in 1..Len(factory.supported) : factory.supported[j] = a
                                  /\ \E j \in 1..Len(feature) : feature[j] = a}
    IN  IF common = {} THEN None
        ELSE [alg |-> CHOOSE a \in common : \A b \in common : a <= b]

\* the data of feature id in a received feature map, None when it is absent
\* (a feature_map is a std::map: of two records with one id the first stays)
RECURSIVE FeatureData(_, _)
FeatureData(map, id) ==
    IF map = <<>> THEN None
    ELSE IF Head(map).id = id THEN [data |-> Head(map).data]
    ELSE FeatureData(Tail(map), id)

\* server::connection::negotiate: the features this server returns for the
\* ones requested, in the order of their ids
negotiate(requested, factory) ==
    (IF FeatureData(requested, COMPRESS) # None /\ factory # None
     THEN <<[id |-> COMPRESS, data |-> factory.supported]>> ELSE <<>>)
    \o (IF FeatureData(requested, TIMEOUT) # None
        THEN <<[id |-> TIMEOUT, data |-> <<>>]>> ELSE <<>>)

\* ... and the _compressor it sets
ServerCompressor(requested, factory) ==
    IF FeatureData(requested, COMPRESS) # None /\ factory # None
    THEN FactoryNegotiate(factory, FeatureData(requested, COMPRESS).data, TRUE)
    ELSE None

\* (mutant) the client sets up its compressor from what it offered, not from
\* what the server returned
ClientCompressorOffered(provided, factory) ==
    IF factory # None THEN FactoryNegotiate(factory, factory.supported, FALSE) ELSE None

\* client::negotiate: the _compressor set from the features the server
\* returned
ClientCompressor(provided, factory) ==
    IF FeatureData(provided, COMPRESS) # None /\ factory # None
    THEN FactoryNegotiate(factory, FeatureData(provided, COMPRESS).data, FALSE)
    ELSE None

\* (mutant) the server returns TIMEOUT without recording it
ServerTimeoutNegotiatedNever(requested) == FALSE

\* server::connection::negotiate, case TIMEOUT: _timeout_negotiated
ServerTimeoutNegotiated(requested) == FeatureData(requested, TIMEOUT) # None

\* client::negotiate, case TIMEOUT: _timeout_negotiated
ClientTimeoutNegotiated(provided) == FeatureData(provided, TIMEOUT) # None

\* the features the client's constructor puts in its negotiation frame
ClientFeatures(factory, timeout_data) ==
    (IF factory # None THEN <<[id |-> COMPRESS, data |-> factory.supported]>> ELSE <<>>)
    \o (IF timeout_data THEN <<[id |-> TIMEOUT, data |-> <<>>]>> ELSE <<>>)

\* what an endpoint adds to its log
Log(who, msg) == IF msg = "" THEN {} ELSE {[who |-> who, msg |-> msg]}

\* the response frames a peer that is not this server may send: with an
\* empty payload, and with an exception record of a kind that does not exist
RogueFrames ==
    { response_frame(s * i, p) : s \in {1, -1}, i \in Ids,
        p \in { <<>>, write_le(7, 4) \o write_le(0, 4) } }

VARIABLES
    \* client connection
    message_id,       \* the id counter: the last id allocated
    c_error,          \* _error
    c_pc,             \* where the client is: connecting, negotiating, loop (the read
                      \* loop), exited, stopping, stopped; absent when a peer that
                      \* is not this client is connected instead
    outstanding,      \* _outstanding: the ids that have a reply handler
    calls,            \* the call made under each id
    fut,              \* the completion slot (promise) of each call
    nset,             \* how many times each slot was fulfilled
    stats,            \* replied, exception_received
    c_outq,           \* the client's queue of outgoing frames
    c_wr,             \* the frame the client's send loop is writing
    c2s,              \* the stream client -> server
    c2s_closed,
    \* server and its connection
    s_error,          \* _error
    s_pc,             \* where the server connection is: negotiating, loop, exited,
                      \* stopping, stopped; absent when the peer is not this server
    gate_closed,      \* the server's reply gate
    resources_available,
    cur,              \* the request the read loop holds in wait_for_resources
    rq,               \* the requests the server has read, by id
    s_outq,
    s_wr,
    s2c,              \* the stream server -> client
    s2c_closed,
    \* history
    observed,         \* the request ids in the order the server read them
    responded,        \* the response frames the server queued, by request id
    injected,         \* frames put on s2c by a non-conforming peer
    refused,          \* the future returned to a call made on a connection in error
    _conns,           \* the server's set of connections
    _stopped,         \* whether the server connection's _stopped promise is fulfilled
    teardown,         \* the effects of the server connection's teardown, in program order
    other_held,       \* the weight admitted, and not yet released, for a request of
                      \* another connection of the same server
    send_loop_started,\* whether the client has called send_loop()
    logged,           \* what each endpoint has logged
    \* compression
    c_factory,        \* client_options::compressor_factory, None when not configured
    s_factory,        \* server_options::compressor_factory, None when not configured
    c_compressor,     \* the client connection's _compressor
    s_compressor,     \* the server connection's _compressor
    \* timeout transmission
    send_timeout_data,    \* client_options::send_timeout_data
    c_timeout_negotiated, \* the client connection's _timeout_negotiated
    s_timeout_negotiated  \* the server connection's _timeout_negotiated

cvars == <<message_id, c_error, c_pc, outstanding, calls, fut, nset, stats>>
cwire == <<c_outq, c_wr, c2s, c2s_closed>>
svars == <<s_error, s_pc, gate_closed, resources_available, cur, rq, observed, responded>>
swire == <<s_outq, s_wr, s2c, s2c_closed>>
hist == <<refused, _conns, _stopped, teardown, other_held, send_loop_started, logged>>
comp == <<c_factory, s_factory, c_compressor, s_compressor,
          send_timeout_data, c_timeout_negotiated, s_timeout_negotiated>>
vars == <<cvars, cwire, svars, swire, injected, hist, comp>>

NoFuture == [st |-> "none", kind |-> "none", val |-> <<>>]
Pending == [st |-> "pending", kind |-> "none", val |-> <<>>]
Ready(kind, val) == [st |-> "ready", kind |-> kind, val |-> val]
\* the future a no_wait call returned while the future of send() is unresolved
Sending == [st |-> "sending", kind |-> "none", val |-> <<>>]

\* a request of the server: where it is, the weight it was admitted with and
\* whether that weight is still deducted, how its handler resolved and whether
\* the connection was in error by then
NoRequest == [stage |-> "none", weight |-> 0, held |-> FALSE, type |-> 0, args |-> <<>>,
              outcome |-> "none", err |-> FALSE]

\* the state after construction, for a client and a server configured with
\* the compressor factories cf and sf, and a client configured with
\* send_timeout_data = std
InitOptions(cf, sf, std) ==
    /\ send_timeout_data = std
    /\ c_timeout_negotiated = FALSE
    /\ s_timeout_negotiated = FALSE
    /\ c_factory = cf
    /\ s_factory = sf
    /\ c_compressor = None
    /\ s_compressor = None
    /\ message_id = 0
    /\ c_error = FALSE
    /\ c_pc = "connecting"
    /\ outstanding = {}
    /\ calls = [i \in Ids |-> None]
    /\ fut = [i \in Ids |-> NoFuture]
    /\ nset = [i \in Ids |-> 0]
    /\ stats = [replied |-> 0, exception_received |-> 0]
    /\ c_outq = <<>>
    /\ c_wr = None
    /\ c2s = <<>>
    /\ c2s_closed = FALSE
    /\ s_error = FALSE
    /\ s_pc = "negotiating"
    /\ gate_closed = FALSE
    /\ resources_available = MaxMemory
    /\ cur = None
    /\ rq = [i \in Ids |-> NoRequest]
    /\ s_outq = <<>>
    /\ s_wr = None
    /\ s2c = <<>>
    /\ s2c_closed = FALSE
    /\ observed = <<>>
    /\ responded = [i \in Ids |-> <<>>]
    /\ injected = 0
    /\ refused = None
    /\ _conns = {"conn"}
    /\ _stopped = FALSE
    /\ teardown = <<>>
    /\ other_held = 0
    /\ send_loop_started = FALSE
    /\ logged = {}

\* ... for a client configured without send_timeout_data
InitWith(cf, sf) == InitOptions(cf, sf, FALSE)

\* neither endpoint is configured with a compressor factory
Init == InitWith(None, None)

(***************************************************************************)
(* Sending.  connection::send queues a frame for the send loop; the send   *)
(* loop takes the frame at the head of the queue, writes its header and    *)
(* its payload to the stream, and only then takes the next one.            *)
(***************************************************************************)
\* connection::send
Send(queue, frame) == Append(queue, frame)

\* the send loop's write of the head of a frame / of the rest of it
WriteHead(stream, f) == Append(stream, HdrChunk(f))
WriteRest(stream, f) == Append(stream, BodyChunk(f))

\* ... by the send loop of a connection that has this compressor
WriteHeadCompressed(compressor, stream, f) == Append(stream, compress(compressor, HdrChunk(f)))
WriteRestCompressed(compressor, stream, f) == Append(stream, compress(compressor, BodyChunk(f)))

\* a whole frame is at the head of the stream
FrameReady(stream) == Len(stream) >= 2

(***************************************************************************)
(* The client.                                                             *)
(***************************************************************************)
\* client::next_message_id
next_message_id(counter) == counter + 1

\* (mutant) the result is the second future whatever the first one does
when_all_second(send_done, reply) == reply

\* when_all(dst.send(...), wait_for_reply(...)).then(get<1>) for a no_wait
\* call, whose wait_for_reply is a ready future: the result is that future
\* once the future of send() has resolved too
when_all(send_done, reply) == IF send_done THEN reply ELSE Sending

\* send_helper::shelper::send on a connection that is not in error: allocate
\* the id, marshall, fill the header, queue the frame, install the reply
\* handler of a wait-mode call
Call(k) ==
    /\ message_id < MaxCalls
    /\ ~c_error
    /\ LET msg_id == next_message_id(message_id)
           data == marshall(k.args)
       IN  /\ message_id' = msg_id
           /\ calls' = [calls EXCEPT ![msg_id] = k]
           /\ c_outq' = Send(c_outq, request_frame(k.type, msg_id, data))
           /\ IF k.style = "wait"
              THEN /\ outstanding' = outstanding \cup {msg_id}
                   /\ fut' = [fut EXCEPT ![msg_id] = Pending]
              ELSE /\ outstanding' = outstanding
                   /\ fut' = [fut EXCEPT ![msg_id] = when_all(FALSE, Ready("ok", <<>>))]
    /\ UNCHANGED <<c_error, c_pc, nset, stats, c_wr, c2s, c2s_closed, svars, swire, injected, hist, comp>>

\* (mutant) the id is allocated before the error flag is looked at
CallRefusedAllocates(k) ==
    /\ message_id < MaxCalls
    /\ c_error
    /\ message_id' = next_message_id(message_id)
    /\ refused' = Ready("closed_error", <<>>)
    /\ UNCHANGED <<c_error, c_pc, outstanding, calls, fut, nset, stats, cwire, svars, swire,
                   injected, _conns, _stopped, teardown, other_held, send_loop_started, logged, comp>>

\* send_helper::shelper::send on a connection in error: the future returned
\* is made failed with closed_error, and nothing else is done
CallRefused(k) ==
    /\ message_id < MaxCalls
    /\ c_error
    /\ refused' = Ready("closed_error", <<>>)
    /\ UNCHANGED <<cvars, cwire, svars, swire, injected, _conns, _stopped, teardown, other_held, send_loop_started, logged, comp>>

ClientSendBegin ==
    /\ send_loop_started
    /\ c_wr = None
    /\ c_outq # <<>>
    /\ ~c2s_closed
    /\ c_wr' = Head(c_outq)
    /\ c_outq' = Tail(c_outq)
    /\ LET \* the call whose send() queued the frame at the head of the queue
           owner == message_id - Len(c_outq) + 1
           ms == IF calls[owner].opt = "deadline" THEN 1 ELSE 0
       IN  c2s' = Append(c2s, compress(c_compressor,
                             with_expiration(c_timeout_negotiated, HdrChunk(Head(c_outq)), ms)))
    /\ UNCHANGED <<cvars, c2s_closed, svars, swire, injected, hist, comp>>

\* the write completes and the future of that frame's send() resolves
ClientSendEnd ==
    /\ c_wr # None
    /\ c2s' = WriteRestCompressed(c_compressor, c2s, c_wr)
    /\ c_wr' = None
    /\ LET \* the call whose send() queued this frame: the queue is FIFO and
           \* every later call's frame is still behind it
           owner == message_id - Len(c_outq)
       IN  fut' = [fut EXCEPT ![owner] =
                     IF calls[owner].style = "no_wait" THEN when_all(TRUE, Ready("ok", <<>>)) ELSE @]
    /\ UNCHANGED <<message_id, c_error, c_pc, outstanding, calls, nset, stats, c_outq, c2s_closed,
                   svars, swire, injected, hist, comp>>

\* the continuation of connect() in the client's constructor: the streams
\* are set up and the client's negotiation frame is sent
ClientConnect ==
    /\ c_pc = "connecting"
    /\ LET n == send_negotiation_frame(ClientFeatures(c_factory, send_timeout_data))
       IN  c2s' = c2s \o <<NegHdrChunk(n), NegBodyChunk(n)>>
    /\ c_pc' = "negotiating"
    /\ UNCHANGED <<message_id, c_error, outstanding, calls, fut, nset, stats, c_outq, c_wr, c2s_closed,
                   svars, swire, injected, hist, comp>>

\* client::negotiate_protocol and its continuation: the server's negotiation
\* frame is received; then send_loop() is called and the read loop starts.
\* A failure ends the chain with closed_error, which the teardown logs.
ClientNegotiate ==
    /\ c_pc = "negotiating"
    /\ FrameReady(s2c) \/ s2c_closed
    /\ LET r == receive_negotiation_frame(s2c)
       IN  /\ s2c' = Drop(s2c, r.read)
           /\ IF r.ok
              THEN /\ c_pc' = "loop"
                   /\ c_compressor' = ClientCompressor(r.map, c_factory)
                   /\ c_timeout_negotiated' = ClientTimeoutNegotiated(r.map)
                   /\ send_loop_started' = TRUE
                   /\ logged' = logged
              ELSE /\ c_pc' = "exited"
                   /\ c_compressor' = c_compressor
                   /\ c_timeout_negotiated' = c_timeout_negotiated
                   /\ send_loop_started' = send_loop_started
                   /\ logged' = logged \cup Log("client", r.log)
                                       \cup Log("client", "client connection dropped")
    /\ UNCHANGED <<message_id, c_error, outstanding, calls, fut, nset, stats, cwire, svars,
                   s_outq, s_wr, s2c_closed, injected, refused, _conns, _stopped, teardown, other_held,
                   c_factory, s_factory, s_compressor, send_timeout_data, s_timeout_negotiated>>

\* what an exception puts in the completion slot
ExVal(ex) == IF ex.kind = "unknown_verb_error" THEN <<ex.type>> ELSE ex.msg

\* the reply handler's lambda of wait_for_reply(wait_type), with get_reply and
\* ~rcv_reply_base: [fut, set, threw, stat].  set = 1 when the promise was
\* given a value or an exception; threw = TRUE when the lambda throws.
ReplyLambda(call, msg_id, data) ==
    IF msg_id >= 0
    THEN LET u == unmarshall(call.ret, data)
         IN  IF u.ok
             THEN [fut |-> Ready("value", u.vals), set |-> 1, threw |-> FALSE, stat |-> "replied"]
             \* unmarshall throws before set_value: done stays false and the
             \* destructor of the handler sets closed_error
             ELSE [fut |-> Ready("closed_error", <<>>), set |-> 1, threw |-> TRUE, stat |-> "replied"]
    ELSE LET ex == unmarshal_exception(data)
         IN  IF ex.thrown
             \* done was set before unmarshal_exception threw: neither
             \* set_exception nor the destructor fulfils the promise
             THEN [fut |-> Ready("abandoned", <<>>), set |-> 0, threw |-> TRUE, stat |-> "exception_received"]
             ELSE [fut |-> Ready(ex.kind, ExVal(ex)), set |-> 1, threw |-> FALSE, stat |-> "exception_received"]

\* (mutant) every frame without a reply handler is an error
OrphanSetsErrorAlways(msg_id, data) == TRUE

\* (mutant) no frame without a reply handler is an error
OrphanSetsErrorNever(msg_id, data) == FALSE

\* the read loop's treatment of a frame whose id has no reply handler:
\* TRUE when the connection goes to the error state
OrphanSetsError(msg_id, data) ==
    IF msg_id < 0
    THEN LET ex == unmarshal_exception(data)
         IN  ~(~ex.thrown /\ ex.kind = "unknown_verb_error")
    ELSE FALSE

\* ... and what it logs: an unknown verb exception with an unknown id is
\* logged and ignored
OrphanLog(msg_id, data) ==
    IF msg_id < 0 /\ ~OrphanSetsError(msg_id, data)
    THEN Log("client", "unknown verb exception ignored")
    ELSE {}

\* (mutant) the entry is left in the map
EraseEntryForgotten(map, key) == map

\* the read loop moves the handler out of _outstanding and erases its entry
EraseEntry(map, key) == map \ {key}

\* one iteration of the client's read loop: read a response frame, correlate
ClientRead ==
    /\ c_pc = "loop"
    /\ ~c_error
    /\ IF FrameReady(s2c)
       THEN LET msg_id == s2c[1].id
                data == s2c[2].bytes
                key == Abs(msg_id)
                frame == read_frame_compressed(c_compressor, s2c)
            IN  /\ s2c' = Drop(s2c, 2)
                /\ IF ~frame.ok
                   THEN /\ c_error' = TRUE
                        /\ UNCHANGED <<outstanding, fut, nset, stats, c_pc, logged>>
                   ELSE IF key \in outstanding
                   THEN LET r == ReplyLambda(calls[key], msg_id, data)
                        IN  /\ outstanding' = EraseEntry(outstanding, key)
                            /\ fut' = [fut EXCEPT ![key] = r.fut]
                            /\ nset' = [nset EXCEPT ![key] = @ + r.set]
                            /\ stats' = [stats EXCEPT ![r.stat] = @ + 1]
                            /\ c_pc' = IF r.threw THEN "exited" ELSE c_pc
                            /\ c_error' = c_error
                            /\ logged' = logged
                   ELSE /\ c_error' = OrphanSetsError(msg_id, data)
                        /\ logged' = logged \cup OrphanLog(msg_id, data)
                        /\ UNCHANGED <<outstanding, fut, nset, stats, c_pc>>
       ELSE \* eof, or a short read
            /\ s2c_closed
            /\ c_error' = TRUE
            /\ UNCHANGED <<s2c, outstanding, fut, nset, stats, c_pc, logged>>
    /\ UNCHANGED <<message_id, calls, cwire, svars, s_outq, s_wr, s2c_closed, injected,
                   refused, _conns, _stopped, teardown, other_held, send_loop_started, comp>>

\* the deadline of a pending call elapses
Timeout(id) ==
    /\ id \in outstanding
    /\ calls[id].opt = "deadline"
    /\ outstanding' = outstanding \ {id}
    /\ fut' = [fut EXCEPT ![id] = Ready("timeout_error", <<>>)]
    /\ nset' = [nset EXCEPT ![id] = @ + 1]
    /\ UNCHANGED <<message_id, c_error, c_pc, calls, stats, cwire, svars, swire, injected, hist, comp>>

\* the cancellation token of a pending call fires
Cancel(id) ==
    /\ id \in outstanding
    /\ calls[id].opt = "cancel"
    /\ outstanding' = outstanding \ {id}
    /\ fut' = [fut EXCEPT ![id] = Ready("canceled_error", <<>>)]
    /\ nset' = [nset EXCEPT ![id] = @ + 1]
    /\ UNCHANGED <<message_id, c_error, c_pc, calls, stats, cwire, svars, swire, injected, hist, comp>>

\* the continuation of the client's read loop: mark the error, stop the send
\* loop
ClientTeardown ==
    /\ \/ c_pc = "loop" /\ c_error
       \/ c_pc = "exited"
    /\ c_error' = TRUE
    /\ c_pc' = "stopping"
    /\ UNCHANGED <<message_id, outstanding, calls, fut, nset, stats, cwire, svars, swire, injected, hist, comp>>

\* ... and once the send loop has stopped: fulfil _stopped, clear _outstanding;
\* a handler destroyed before it is done sets closed_error
ClientStopped ==
    /\ c_pc = "stopping"
    /\ send_loop_started => c_outq = <<>>
    /\ c_wr = None
    /\ c_pc' = "stopped"
    /\ c_outq' = <<>>
    /\ c2s_closed' = TRUE
    /\ outstanding' = {}
    /\ fut' = [i \in Ids |-> IF i \in outstanding THEN Ready("closed_error", <<>>) ELSE fut[i]]
    /\ nset' = [i \in Ids |-> IF i \in outstanding THEN nset[i] + 1 ELSE nset[i]]
    /\ UNCHANGED <<message_id, c_error, calls, stats, c_wr, c2s, svars, swire, injected, hist, comp>>

\* a peer that is not this server writes a response frame of its own
InjectResponse(f) ==
    /\ injected < MaxInject
    /\ s_wr = None
    /\ s2c = <<>>
    /\ ~s2c_closed
    /\ injected' = injected + 1
    /\ s2c' = WriteRest(WriteHead(s2c, f), f)
    /\ UNCHANGED <<cvars, cwire, svars, s_outq, s_wr, s2c_closed, hist, comp>>

\* ... or writes the header of a frame and closes the stream before the
\* payload: the client's read_frame gets fewer bytes than the header declares
InjectTruncated(f) ==
    /\ injected < MaxInject
    /\ s_wr = None
    /\ s2c = <<>>
    /\ ~s2c_closed
    /\ injected' = injected + 1
    /\ s2c' = WriteHead(s2c, f)
    /\ s2c_closed' = TRUE
    /\ UNCHANGED <<cvars, cwire, svars, s_outq, s_wr, hist, comp>>

(***************************************************************************)
(* The server.                                                             *)
(***************************************************************************)
\* connection::estimate_request_size
estimate_request_size(serialized_size) == BasicRequestSize + serialized_size

\* connection::wait_for_resources is ready: the amount can be deducted
ResourcesReady(amount) == amount <= resources_available

\* connection::respond: fill the response header, send
respond(queue, msg_id, data) == Send(queue, response_frame(msg_id, data))

\* (mutant) every reply releases what the unknown verb branch releases
ReleaseAmountFixed(r) == UnknownVerbWeight

\* what release_resources is given for a request: recv_helper releases the
\* memory_consumed it waited for, the unknown verb branch the 28 it waited for
ReleaseAmount(r) == r.weight

\* release_resources for request id, as the .finally of its reply does
Released(requests, id) ==
    [requests EXCEPT ![id].stage = "done", ![id].held = FALSE]

\* (mutant) with_gate runs its function whatever the gate's state
GateRefusesNever == FALSE

\* with_gate on the server's reply gate throws gate_closed_exception, which
\* the caller catches and ignores, when the gate has been closed
GateRefuses == gate_closed

\* the continuation of wait_for_resources, in recv_helper for a registered
\* type and in process() for an unknown one: the amount is deducted; under the
\* reply gate the handler is started, or the unknown-verb reply is sent; a
\* closed gate throws gate_closed_exception, which is ignored
Dispatch(id, type, weight, args) ==
    LET r == [stage |-> "handler", weight |-> weight, held |-> TRUE, type |-> type,
              args |-> args, outcome |-> "none", err |-> FALSE]
    IN  /\ resources_available' = resources_available - weight
        /\ IF GateRefuses
           THEN /\ rq' = [rq EXCEPT ![id] = [r EXCEPT !.stage = "dropped"]]
                /\ UNCHANGED <<s_outq, responded>>
           ELSE IF type \in DOMAIN _handlers
           THEN /\ rq' = [rq EXCEPT ![id] = r]
                /\ UNCHANGED <<s_outq, responded>>
           ELSE LET data == UnknownVerbRecord(type)
                IN  /\ rq' = [rq EXCEPT ![id] = [r EXCEPT !.stage = "replying"]]
                    /\ s_outq' = respond(s_outq, -id, data)
                    /\ responded' = [responded EXCEPT ![id] = Append(@, response_frame(-id, data))]

\* server::connection::negotiate_protocol: the client's negotiation frame is
\* received and answered with the features agreed.  A failure ends process()'s
\* chain with closed_error, which the teardown logs.
ServerNegotiate ==
    /\ s_pc = "negotiating"
    /\ FrameReady(c2s) \/ c2s_closed
    /\ LET r == receive_negotiation_frame(c2s)
           n == send_negotiation_frame(negotiate(r.map, s_factory))
       IN  /\ c2s' = Drop(c2s, r.read)
           /\ IF r.ok
              THEN /\ s_pc' = "loop"
                   /\ s_compressor' = ServerCompressor(r.map, s_factory)
                   /\ s_timeout_negotiated' = ServerTimeoutNegotiated(r.map)
                   /\ s2c' = s2c \o <<NegHdrChunk(n), NegBodyChunk(n)>>
                   /\ logged' = logged
              ELSE /\ s_pc' = "exited"
                   /\ s_compressor' = s_compressor
                   /\ s_timeout_negotiated' = s_timeout_negotiated
                   /\ s2c' = s2c
                   /\ logged' = logged \cup Log("server", r.log)
                                       \cup Log("server", "server connection dropped")
    /\ UNCHANGED <<cvars, c_outq, c_wr, c2s_closed, s_error, gate_closed, resources_available, cur, rq,
                   observed, responded, s_outq, s_wr, s2c_closed, injected, refused, _conns, _stopped,
                   teardown, other_held, send_loop_started, c_factory, s_factory, c_compressor,
                   send_timeout_data, c_timeout_negotiated>>

\* (mutant) the arguments are left for after wait_for_resources: nothing is
\* thrown before it
recv_helper_admit_first(type, data) ==
    LET args == unmarshall(_handlers[type].args, data)
    IN  [threw |-> FALSE, memory_consumed |-> estimate_request_size(Len(data)),
         args |-> IF args.ok THEN args.vals ELSE <<>>]

\* the lambda of recv_helper up to wait_for_resources: the weight is
\* estimated, then the arguments are unmarshalled, which may throw
recv_helper(type, data) ==
    LET memory_consumed == estimate_request_size(Len(data))
        args == unmarshall(_handlers[type].args, data)
    IN  [threw |-> ~args.ok, memory_consumed |-> memory_consumed, args |-> args.vals]

\* (mutant) the read loop starts its next iteration at once
ReadLoopFree == TRUE

\* do_until starts the next iteration when the future the previous one
\* returned resolves: the future of wait_for_resources(...).then(...), which
\* does not include the handler's
ReadLoopIdle == cur = None

\* one iteration of the server's read loop: read a request frame, look the
\* handler up, unmarshall, wait for resources
ServerRead ==
    /\ s_pc = "loop"
    /\ ~s_error
    /\ ReadLoopIdle
    /\ IF FrameReady(c2s)
       THEN LET type == c2s[1].type
                msg_id == c2s[1].id
                data == c2s[2].bytes
                known == type \in DOMAIN _handlers
                h == IF known THEN recv_helper(type, data)
                     ELSE [threw |-> FALSE, memory_consumed |-> UnknownVerbWeight, args |-> <<>>]
                memory_consumed == h.memory_consumed
                args == [ok |-> ~h.threw, vals |-> h.args]
                frame == read_request_frame_compressed(s_timeout_negotiated, s_compressor, c2s)
            IN  /\ c2s' = Drop(c2s, 2)
                /\ IF ~frame.ok
                   THEN /\ s_error' = TRUE
                        /\ UNCHANGED <<observed, s_pc, cur, rq, resources_available, s_outq, responded>>
                   ELSE /\ observed' = Append(observed, msg_id)
                        /\ s_error' = s_error
                        /\ IF ~args.ok
                           THEN \* unmarshall throws: the read loop ends with the exception
                                /\ s_pc' = "exited"
                                /\ rq' = [rq EXCEPT ![msg_id] =
                                              [NoRequest EXCEPT !.stage = "badargs", !.type = type]]
                                /\ UNCHANGED <<cur, resources_available, s_outq, responded>>
                           ELSE IF ResourcesReady(memory_consumed)
                           THEN /\ Dispatch(msg_id, type, memory_consumed, args.vals)
                                /\ UNCHANGED <<cur, s_pc>>
                           ELSE /\ cur' = [id |-> msg_id, type |-> type, weight |-> memory_consumed,
                                           args |-> args.vals]
                                /\ rq' = [rq EXCEPT ![msg_id] =
                                              [NoRequest EXCEPT !.stage = "waiting", !.type = type,
                                                                !.weight = memory_consumed]]
                                /\ UNCHANGED <<s_pc, resources_available, s_outq, responded>>
       ELSE \* eof, or a short read
            /\ c2s_closed
            /\ s_error' = TRUE
            /\ UNCHANGED <<c2s, observed, s_pc, cur, rq, resources_available, s_outq, responded>>
    /\ UNCHANGED <<cvars, c_outq, c_wr, c2s_closed, gate_closed, s_wr, s2c, s2c_closed, injected, hist, comp>>

\* the request held in wait_for_resources is admitted
AdmitBlocked ==
    /\ cur # None
    /\ ResourcesReady(cur.weight)
    /\ Dispatch(cur.id, cur.type, cur.weight, cur.args)
    /\ cur' = None
    /\ UNCHANGED <<cvars, cwire, s_error, s_pc, gate_closed, observed, s_wr, s2c, s2c_closed, injected, hist, comp>>

\* reply(wait_type) and reply(no_wait_type) for a handler's resolved future:
\* "respond" with the frame to send, "nothing" when a ready future is
\* returned without sending, "throw" when the exception leaves reply(); log
\* is what reply() logs
Reply(style, msg_id, args, outcome, error) ==
    IF style = "wait"
    THEN IF ~error
         THEN CASE outcome = "value" ->
                     [do |-> "respond", id |-> msg_id, data |-> marshall(func(args)), log |-> ""]
                [] outcome = "std_exception" ->
                     [do |-> "respond", id |-> -msg_id, data |-> UserRecord(Boom), log |-> ""]
                [] OTHER ->
                     [do |-> "throw", id |-> 0, data |-> <<>>, log |-> ""]
         ELSE [do |-> "nothing", id |-> 0, data |-> <<>>, log |-> ""]
    ELSE CASE outcome = "value" ->
                [do |-> "nothing", id |-> 0, data |-> <<>>, log |-> ""]
           [] outcome = "std_exception" ->
                [do |-> "nothing", id |-> 0, data |-> <<>>,
                 log |-> "exception in no_wait handler ignored"]
           [] OTHER ->
                [do |-> "throw", id |-> 0, data |-> <<>>, log |-> ""]

\* the handler of request id resolves: then_wrapped runs reply(), and the
\* .finally chained to reply()'s future releases the resources
HandlerDone(id, outcome) ==
    /\ rq[id].stage = "handler"
    /\ LET r == rq[id]
           rep == Reply(_handlers[r.type].style, id, r.args, outcome, s_error)
           done == [rq EXCEPT ![id].outcome = outcome, ![id].err = s_error]
       IN  /\ logged' = logged \cup Log("server", rep.log)
           /\ CASE rep.do = "respond" ->
                  /\ s_outq' = respond(s_outq, rep.id, rep.data)
                  /\ responded' = [responded EXCEPT ![id] = Append(@, response_frame(rep.id, rep.data))]
                  /\ rq' = [done EXCEPT ![id].stage = "replying"]
                  /\ UNCHANGED resources_available
             [] rep.do = "nothing" ->
                  /\ rq' = Released(done, id)
                  /\ resources_available' = resources_available + ReleaseAmount(r)
                  /\ UNCHANGED <<s_outq, responded>>
             [] OTHER ->
                  \* reply() threw before .finally was chained to its result
                  /\ rq' = [done EXCEPT ![id].stage = "lost"]
                  /\ UNCHANGED <<s_outq, responded, resources_available>>
    /\ UNCHANGED <<cvars, cwire, s_error, s_pc, gate_closed, cur, observed, s_wr, s2c, s2c_closed, injected,
                   refused, _conns, _stopped, teardown, other_held, send_loop_started, comp>>

ServerSendBegin ==
    /\ s_wr = None
    /\ s_outq # <<>>
    /\ ~s2c_closed
    /\ s_wr' = Head(s_outq)
    /\ s_outq' = Tail(s_outq)
    /\ s2c' = WriteHeadCompressed(s_compressor, s2c, Head(s_outq))
    /\ UNCHANGED <<cvars, cwire, svars, s2c_closed, injected, hist, comp>>

\* the write completes: the future of send resolves and the .finally of the
\* reply releases the request's resources
ServerSendEnd ==
    /\ s_wr # None
    /\ s2c' = WriteRestCompressed(s_compressor, s2c, s_wr)
    /\ s_wr' = None
    /\ LET id == Abs(s_wr.id)
       IN  /\ rq' = Released(rq, id)
           /\ resources_available' = resources_available + ReleaseAmount(rq[id])
    /\ UNCHANGED <<cvars, cwire, s_error, s_pc, gate_closed, cur, observed, responded, s_outq, s2c_closed, injected, hist, comp>>

\* the continuation of the server's read loop: mark the error, stop the send
\* loop
ServerTeardown ==
    /\ \/ s_pc = "loop" /\ s_error /\ cur = None
       \/ s_pc = "exited"
    /\ s_error' = TRUE
    /\ s_pc' = "stopping"
    /\ UNCHANGED <<cvars, cwire, gate_closed, resources_available, cur, rq, observed, responded, swire, injected, hist, comp>>

\* ... and once the send loop has stopped: leave _conns, fulfil _stopped
ServerStopped ==
    /\ s_pc = "stopping"
    /\ s_outq = <<>>
    /\ s_wr = None
    /\ s_pc' = "stopped"
    /\ s2c_closed' = TRUE
    /\ _conns' = _conns \ {"conn"}
    /\ _stopped' = TRUE
    /\ teardown' = teardown \o <<"send_loop_stopped", "conns_erase", "stopped_set_value">>
    /\ UNCHANGED <<cvars, cwire, s_error, gate_closed, resources_available, cur, rq, observed, responded,
                   s_outq, s_wr, s2c, injected, refused, other_held, send_loop_started, logged, comp>>

\* server::stop: the connection is marked in error and the reply gate closed
ServerStop ==
    /\ ~gate_closed
    /\ s_error' = TRUE
    /\ gate_closed' = TRUE
    /\ UNCHANGED <<cvars, cwire, s_pc, resources_available, cur, rq, observed, responded, swire, injected, hist, comp>>

Next ==
    \/ ClientConnect
    \/ ClientNegotiate
    \/ ServerNegotiate
    \/ \E k \in CallKinds : Call(k)
    \/ \E k \in CallKinds : CallRefused(k)
    \/ ClientSendBegin
    \/ ClientSendEnd
    \/ ClientRead
    \/ \E id \in Ids : Timeout(id)
    \/ \E id \in Ids : Cancel(id)
    \/ ClientTeardown
    \/ ClientStopped
    \/ ServerRead
    \/ AdmitBlocked
    \/ \E id \in Ids, o \in Outcomes : HandlerDone(id, o)
    \/ ServerSendBegin
    \/ ServerSendEnd
    \/ ServerTeardown
    \/ ServerStopped
    \/ ServerStop

\* the client connected to this server
Spec == Init /\ [][Next]_vars

\* the client connected to a peer that also sends frames this server never
\* sends
NextRogue ==
    \/ Next
    \/ \E f \in RogueFrames : InjectResponse(f)
    \/ \E f \in RogueFrames : InjectTruncated(f)

SpecRogue == Init /\ [][NextRogue]_vars

(***************************************************************************)
(* Peers that are not this code.  A foreign client or a foreign server     *)
(* takes the place of this one: it sends a negotiation frame of its own    *)
(* making (whole, only its header so far, or its header followed by the    *)
(* end of the stream) and then frames without waiting for anything.        *)
(***************************************************************************)
ForeignNegotiations ==
    { [magic |-> rpc_magic, len |-> 0, extra |-> <<>>],
      [magic |-> <<83, 83, 84, 65, 82, 82, 80, 68>>, len |-> 0, extra |-> <<>>],
      [magic |-> rpc_magic, len |-> 3, extra |-> <<1, 0, 0>>] }

Shapes == {"whole", "header", "truncated"}

NegChunks(n, shape) ==
    IF shape = "whole" THEN <<NegHdrChunk(n), NegBodyChunk(n)>> ELSE <<NegHdrChunk(n)>>

RogueRequests == { request_frame(t, 1, marshall(<<1>>)) : t \in {1, 9} }

ForeignClientConnects(n, shape) ==
    /\ c_pc = "connecting"
    /\ c_pc' = "absent"
    /\ c2s' = c2s \o NegChunks(n, shape)
    /\ c2s_closed' = (shape = "truncated")
    /\ UNCHANGED <<message_id, c_error, outstanding, calls, fut, nset, stats, c_outq, c_wr,
                   svars, swire, injected, hist, comp>>

ForeignClientRequests(f) ==
    /\ c_pc = "absent"
    /\ injected < MaxInject
    /\ ~c2s_closed
    /\ injected' = injected + 1
    /\ c2s' = WriteRest(WriteHead(c2s, f), f)
    /\ UNCHANGED <<cvars, c_outq, c_wr, c2s_closed, svars, swire, hist, comp>>

ForeignServerAccepts(n, shape) ==
    /\ s_pc = "negotiating"
    /\ s_pc' = "absent"
    /\ s2c' = s2c \o NegChunks(n, shape)
    /\ s2c_closed' = (shape = "truncated")
    /\ UNCHANGED <<cvars, cwire, s_error, gate_closed, resources_available, cur, rq, observed,
                   responded, s_outq, s_wr, injected, hist, comp>>

ForeignServerResponds(f) ==
    /\ s_pc = "absent"
    /\ InjectResponse(f)

\* the calls made once a connection is running: plain calls, of each
\* wait-mode, to a registered and to an unregistered type
NegCallKinds == {k \in CallKinds : k.args # <<>> /\ k.opt = "none"}

\* the steps of a client that makes calls of these kinds, and of the server
NextWith(kinds) ==
    \/ ClientConnect
    \/ ClientNegotiate
    \/ ServerNegotiate
    \/ \E k \in kinds : Call(k)
    \/ \E k \in kinds : CallRefused(k)
    \/ ClientSendBegin
    \/ ClientSendEnd
    \/ ClientRead
    \/ ClientTeardown
    \/ ClientStopped
    \/ ServerRead
    \/ AdmitBlocked
    \/ \E id \in Ids, o \in Outcomes : HandlerDone(id, o)
    \/ ServerSendBegin
    \/ ServerSendEnd
    \/ ServerTeardown
    \/ ServerStopped
    \/ ServerStop

\* the steps of a client that makes plain calls, and of the server
NextPlain == NextWith(NegCallKinds)

\* calls to the handler of type 3, declared (int, int, optional<int>), by
\* clients that declare it with one, two or three arguments, and a call to
\* the handler of type 1 with the largest argument
OptCallKinds ==
    { [type |-> 3, style |-> "wait", ret |-> <<"int">>, args |-> a, opt |-> "none"] :
          a \in {<<1>>, <<1, 2>>, <<2, 1, 3>>} }
    \cup
    { [type |-> 1, style |-> "wait", ret |-> <<"int">>, args |-> <<255>>, opt |-> "none"] }

NextOpt == NextWith(OptCallKinds)

\* a client of the handler with the optional parameter
SpecOpt == Init /\ [][NextOpt]_vars

\* a client configured with send_timeout_data or without it
InitTimeout == \E std \in BOOLEAN : InitOptions(None, None, std)

SpecTimeout == InitTimeout /\ [][NextPlain]_vars

\* each endpoint configured with a compressor factory or with none
InitCompress ==
    \E cf \in {None} \cup Factories, sf \in {None} \cup Factories : InitWith(cf, sf)

\* a client and a server with any of these configurations
SpecCompress == InitCompress /\ [][NextPlain]_vars

(***************************************************************************)
(* A second connection of the same server.  The server's constructor       *)
(* initialises one _resources_available for the server; recv_helper on     *)
(* any of its connections waits for and releases resources through it.     *)
(***************************************************************************)
\* the weights of the requests read on the other connection
OtherWeights == {estimate_request_size(1)}

\* recv_helper on the other connection: wait_for_resources(memory_consumed)
\* is ready and the amount is deducted
OtherAdmit(w) ==
    /\ other_held = 0
    /\ ResourcesReady(w)
    /\ resources_available' = resources_available - w
    /\ other_held' = w
    /\ UNCHANGED <<cvars, cwire, s_error, s_pc, gate_closed, cur, rq, observed, responded, swire, injected,
                   refused, _conns, _stopped, teardown, send_loop_started, logged, comp>>

\* ... and the .finally of its reply: release_resources(memory_consumed)
OtherRelease ==
    /\ other_held > 0
    /\ resources_available' = resources_available + other_held
    /\ other_held' = 0
    /\ UNCHANGED <<cvars, cwire, s_error, s_pc, gate_closed, cur, rq, observed, responded, swire, injected,
                   refused, _conns, _stopped, teardown, send_loop_started, logged, comp>>

NextShared ==
    \/ NextPlain
    \/ \E w \in OtherWeights : OtherAdmit(w)
    \/ OtherRelease

\* the connection and another connection of the same server
SpecShared == Init /\ [][NextShared]_vars

NextNeg ==
    \/ NextPlain
    \/ \E n \in ForeignNegotiations, shape \in Shapes : ForeignClientConnects(n, shape)
    \/ \E f \in RogueRequests : ForeignClientRequests(f)
    \/ \E n \in ForeignNegotiations, shape \in Shapes : ForeignServerAccepts(n, shape)
    \/ \E f \in RogueFrames : ForeignServerResponds(f)

\* this client or a foreign one connected to this server or a foreign one
SpecNeg == Init /\ [][NextNeg]_vars

(***************************************************************************)
(* Properties.                                                             *)
(***************************************************************************)
Issued(i) == i <= message_id
WaitCall(i) == Issued(i) /\ calls[i].style = "wait"

\* request i was read for a registered wait-mode handler
WaitRequest(i) ==
    /\ rq[i].type \in DOMAIN _handlers
    /\ _handlers[rq[i].type].style = "wait"

\* nothing more happens to request i on the server
Finished(i) == rq[i].stage \in {"done", "dropped", "lost", "badargs"}

\* the client's read loop takes a frame off the stream in this step
ClientReadsFrame ==
    /\ c_pc = "loop"
    /\ ~c_error
    /\ FrameReady(s2c)
    /\ s2c' = Drop(s2c, 2)

\* C1: for every request with id M read for a registered wait-mode handler
\* the server queues exactly one response frame, with id +M or -M, unless
\* the connection was in the error state before the handler's result was
\* available: never two, and one once the request has finished.
C1_ExactlyOneResponse ==
    \A i \in Ids :
        WaitRequest(i) =>
            /\ Len(responded[i]) <= 1
            /\ \A j \in 1..Len(responded[i]) : responded[i][j].id \in {i, -i}
            /\ (Finished(i) /\ rq[i].outcome # "none" /\ ~rq[i].err) => Len(responded[i]) = 1

\* C2: the future of every wait-mode call is fulfilled exactly once, with a
\* value, a remote error, a timeout or cancellation error or closed_error:
\* never twice, never left without a result once its reply handler is gone,
\* and all of them are fulfilled once the connection is torn down.
C2_FulfilledExactlyOnce ==
    \A i \in Ids :
        WaitCall(i) =>
            /\ nset[i] <= 1
            /\ fut[i].st = "pending" => i \in outstanding
            /\ fut[i].st = "ready" =>
                  /\ nset[i] = 1
                  /\ fut[i].kind \in {"value", "runtime_error", "unknown_verb_error",
                                      "unknown_exception_error", "timeout_error",
                                      "canceled_error", "closed_error"}
            /\ c_pc = "stopped" => fut[i] \in {Ready("closed_error", <<>>)} \cup
                                              {f \in {fut[i]} : f.st = "ready"}

\* C3: once every request the server has read has finished, whatever its
\* outcome, the available-resources counter equals max_memory again.
C3_BalancedResources ==
    (cur = None /\ \A i \in Ids : rq[i].stage = "none" \/ Finished(i))
        => resources_available = MaxMemory

\* C10: a reply that arrives for a call whose deadline has elapsed is
\* silently dropped: it completes no future and does not move the connection
\* to the error state.
C10_LateReplyDropped ==
    [][ (ClientReadsFrame /\ Abs(s2c[1].id) \in Ids /\ fut[Abs(s2c[1].id)].kind = "timeout_error")
           => (fut' = fut /\ nset' = nset /\ outstanding' = outstanding
               /\ c_error' = c_error /\ c_pc' = c_pc) ]_vars

RECURSIVE HeldUpTo(_)
HeldUpTo(n) ==
    IF n = 0 THEN 0
    ELSE (IF rq[n].held THEN rq[n].weight ELSE 0) + HeldUpTo(n - 1)

\* the weights admitted by wait_for_resources and not yet released
HeldSum == HeldUpTo(MaxCalls)

\* C4: the available-resources counter is between 0 and max_memory and is
\* max_memory minus the weights admitted and not yet released; a request
\* still waiting for resources has had nothing deducted and has not been
\* dispatched.
C4_ResourceAccounting ==
    /\ resources_available >= 0
    /\ resources_available <= MaxMemory
    /\ resources_available = MaxMemory - HeldSum
    /\ \A i \in Ids : rq[i].stage = "waiting" =>
          /\ cur # None
          /\ cur.id = i
          /\ ~rq[i].held
          /\ rq[i].outcome = "none"
          /\ responded[i] = <<>>

\* a request waits because its weight exceeds what is left
C4_Witness ==
    /\ cur # None
    /\ cur.weight > resources_available
    /\ \E i \in Ids : rq[i].held

\* C5: ids are allocated 1, 2, 3, ... in the order of the calls, an id once
\* given to a call is never given to another, and the ids the server reads
\* are strictly increasing.
C5_MonotonicIds ==
    /\ [](/\ \A i \in Ids : (calls[i] # None) <=> i <= message_id
          /\ \A j \in 1..Len(observed) : observed[j] \in 1..message_id
          /\ \A j \in 1..(Len(observed) - 1) : observed[j] < observed[j + 1])
    /\ [][/\ message_id' >= message_id
          /\ \A i \in Ids : calls[i] # None => calls'[i] = calls[i]
          /\ calls' # calls => /\ message_id' = message_id + 1
                               /\ calls'[message_id'] # None]_vars

\* the server has read the frames of two calls
C5_Witness ==
    /\ message_id = MaxCalls
    /\ Len(observed) = MaxCalls

\* the chunks of a stream pair up into whole frames, header then payload of
\* the length the header states; only the frame being written is incomplete
WholeFrames(stream, writing) ==
    /\ \A j \in 1..Len(stream) :
          IF j % 2 = 1
          THEN stream[j].part = "hdr"
          ELSE /\ stream[j].part = "body"
               /\ stream[j].id = stream[j - 1].id
               /\ stream[j].type = stream[j - 1].type
               /\ Len(stream[j].bytes) = stream[j - 1].size
    /\ (Len(stream) % 2 = 1) <=> (writing # None)
    /\ writing # None => stream[Len(stream)] = HdrChunk(writing)

\* C6: in each direction the stream is a concatenation of whole frames; the
\* send loop finishes a frame before it starts the next.
C6_WholeFrames ==
    /\ WholeFrames(c2s, c_wr)
    /\ WholeFrames(s2c, s_wr)

\* the server's send loop is in the middle of a frame while the reply of
\* another handler is queued behind it
C6_Witness ==
    /\ s_wr # None
    /\ s_outq # <<>>
    /\ Len(s2c) % 2 = 1

\* C7: the pending map holds an entry for id M exactly while the wait-mode
\* call M is not completed; entries are inserted only when the call is issued
\* and removed only by a reply, the deadline, a cancellation or the teardown.
C7_PendingMap ==
    /\ [](/\ outstanding \subseteq {i \in Ids : WaitCall(i)}
          /\ \A i \in Ids : WaitCall(i) => (i \in outstanding <=> fut[i].st = "pending"))
    /\ [][\A i \in Ids :
            /\ (i \in outstanding' /\ i \notin outstanding) =>
                  (~Issued(i) /\ message_id' = i /\ ~c_error)
            /\ (i \in outstanding /\ i \notin outstanding') =>
                  /\ fut'[i].st = "ready"
                  /\ \/ ClientReadsFrame /\ Abs(s2c[1].id) = i
                     \/ fut'[i].kind = "timeout_error" /\ calls[i].opt = "deadline"
                     \/ fut'[i].kind = "canceled_error" /\ calls[i].opt = "cancel"
                     \/ fut'[i].kind = "closed_error" /\ c_pc' = "stopped"]_vars

\* the reply to call 1 was delivered while call 2 is pending
C7_Witness ==
    /\ fut[1].kind = "value"
    /\ 1 \notin outstanding
    /\ 2 \in outstanding

\* the fields of an exception record as they lie in a payload
RecordKind(payload) == read_le(Take(payload, 4))
RecordLen(payload) == read_le(Take(Drop(payload, 4), 4))
RecordBody(payload) == Drop(payload, 8)

\* request i was read for a type nobody registered and its reply was sent
UnknownVerbAnswered(i) ==
    /\ rq[i].stage \in {"replying", "done"}
    /\ rq[i].type \notin DOMAIN _handlers

\* C8: a wait-mode call to an unregistered type is answered with id -msg_id
\* and an UNKNOWN_VERB record carrying the type, completes on the client with
\* unknown_verb_error carrying that type, and neither the answer nor its
\* delivery moves a connection to the error state.
C8_UnknownVerb ==
    /\ [](\A i \in Ids :
            /\ UnknownVerbAnswered(i) =>
                  /\ Len(responded[i]) = 1
                  /\ responded[i][1].id = -i
                  /\ responded[i][1].size = 16
                  /\ RecordKind(responded[i][1].payload) = UNKNOWN_VERB
                  /\ RecordLen(responded[i][1].payload) = 8
                  /\ read_le(RecordBody(responded[i][1].payload)) = calls[i].type
            /\ (WaitCall(i) /\ calls[i].type \notin DOMAIN _handlers /\ fut[i].st = "ready") =>
                  \/ fut[i] = Ready("unknown_verb_error", <<calls[i].type>>)
                  \/ fut[i] = Ready("closed_error", <<>>))
    /\ [][\A i \in Ids :
            /\ (~UnknownVerbAnswered(i) /\ UnknownVerbAnswered(i)') =>
                  (s_error' = s_error /\ s_pc' = s_pc)
            /\ (fut[i].st = "pending" /\ fut'[i].kind = "unknown_verb_error") =>
                  /\ c_error' = c_error
                  /\ c_pc' = c_pc
                  /\ stats'.exception_received = stats.exception_received + 1
                  /\ \A j \in Ids \ {i} : fut'[j] = fut[j]]_vars

\* call 1 named an unregistered type and got unknown_verb_error; call 2, to a
\* registered type on the same connection, succeeded
C8_Witness ==
    /\ fut[1] = Ready("unknown_verb_error", <<9>>)
    /\ Issued(2)
    /\ calls[2].type = 1
    /\ fut[2] = Ready("value", <<2>>)
    /\ ~c_error
    /\ ~s_error

\* the handler of request i failed with a std::exception on a healthy
\* connection
HandlerFailed(i) ==
    /\ WaitRequest(i)
    /\ rq[i].outcome = "std_exception"
    /\ ~rq[i].err

\* C9: when a wait-mode handler fails with an exception carrying message s,
\* one response with id -msg_id and a USER record containing s is sent; the
\* client completes that call, and only that call, with an error carrying s,
\* and its connection stays out of the error state.
C9_UserException ==
    /\ [](\A i \in Ids :
            /\ HandlerFailed(i) =>
                  /\ Len(responded[i]) = 1
                  /\ responded[i][1].id = -i
                  /\ RecordKind(responded[i][1].payload) = USER
                  /\ RecordLen(responded[i][1].payload) = Len(Boom)
                  /\ RecordBody(responded[i][1].payload) = Boom
            /\ (WaitCall(i) /\ fut[i].kind = "runtime_error") =>
                  /\ fut[i].val = Boom
                  /\ HandlerFailed(i))
    /\ [][\A i \in Ids :
            (ClientReadsFrame /\ s2c[1].id = -i /\ i \in outstanding /\ HandlerFailed(i)) =>
                  /\ fut'[i] = Ready("runtime_error", Boom)
                  /\ nset'[i] = nset[i] + 1
                  /\ \A j \in Ids \ {i} : fut'[j] = fut[j] /\ nset'[j] = nset[j]
                  /\ outstanding' = outstanding \ {i}
                  /\ c_error' = c_error
                  /\ c_pc' = c_pc]_vars

\* call 1 failed with the handler's message; call 2 on the same connection
\* then succeeded
C9_Witness ==
    /\ fut[1] = Ready("runtime_error", Boom)
    /\ fut[2] = Ready("value", <<2>>)
    /\ stats.exception_received = 1
    /\ ~c_error
    /\ ~s_error

\* the client's read loop hits a protocol error in this step: a read that
\* ends inside a frame, or a frame for a pending call that cannot be decoded
ProtocolErrorStep ==
    /\ c_pc = "loop"
    /\ ~c_error
    /\ \/ /\ ~FrameReady(s2c) /\ s2c_closed /\ Len(s2c) = 1
          /\ UNCHANGED <<message_id, outstanding, fut, c_pc, cwire, svars, swire, injected, hist>>
       \/ /\ ClientReadsFrame
          /\ Abs(s2c[1].id) \in outstanding
          /\ ReplyLambda(calls[Abs(s2c[1].id)], s2c[1].id, s2c[2].bytes).threw

\* the client connection is in the error state or on its way there
ClientFailed == c_error \/ c_pc # "loop"

\* C11: a protocol error on the client (a short read inside a frame, a
\* reply that cannot be decoded) moves the connection to the error state;
\* the call whose reply could not be decoded and every call still in the
\* pending map are completed with closed_error, and after the error no
\* reply is delivered to a call.
C11_ProtocolError ==
    /\ [](c_pc = "stopped" =>
            /\ c_error
            /\ outstanding = {}
            /\ \A i \in Ids : WaitCall(i) =>
                   /\ fut[i].st = "ready"
                   /\ fut[i].kind # "abandoned")
    /\ [][ /\ ProtocolErrorStep => (c_error' \/ c_pc' = "exited")
           /\ (ProtocolErrorStep /\ ClientReadsFrame) =>
                  fut'[Abs(s2c[1].id)] = Ready("closed_error", <<>>)
           /\ ClientFailed =>
                  /\ ClientFailed'
                  /\ stats' = stats
                  /\ \A i \in Ids : (fut[i].st = "pending" /\ fut'[i] # fut[i]) =>
                         fut'[i].kind \in {"closed_error", "timeout_error", "canceled_error"}
           /\ (c_pc = "stopping" /\ c_pc' = "stopped") =>
                  \A i \in outstanding : fut'[i] = Ready("closed_error", <<>>) ]_vars

\* C12: a call issued on a client connection that is in the error state
\* returns a future already failed with closed_error and changes nothing
\* else: no message id is allocated, no frame is queued, no pending entry is
\* installed; and only such a call is refused.
C12_CallOnError ==
    /\ [](refused # None => (c_error /\ refused = Ready("closed_error", <<>>)))
    /\ [][ /\ c_error =>
                  /\ message_id' = message_id
                  /\ calls' = calls
                  /\ Len(c_outq') <= Len(c_outq)
                  /\ outstanding' \subseteq outstanding
           /\ refused' # refused =>
                  /\ c_error
                  /\ UNCHANGED <<cvars, cwire, svars, swire>> ]_vars

\* a call was refused on a connection that had accepted a call before
C12_Witness ==
    /\ refused = Ready("closed_error", <<>>)
    /\ message_id = 1
    /\ c_outq = <<>>

\* the results a reply from the peer gives a call
ReplyKinds == {"value", "runtime_error", "unknown_verb_error", "unknown_exception_error",
               "abandoned"}

\* no reply has been delivered to any call
NoReplyDelivered ==
    /\ stats = [replied |-> 0, exception_received |-> 0]
    /\ \A i \in Ids : fut[i].kind \notin ReplyKinds

\* the server has read and dispatched no request
NoRequestDispatched ==
    /\ observed = <<>>
    /\ cur = None
    /\ \A i \in Ids : rq[i] = NoRequest
    /\ s_outq = <<>>
    /\ resources_available = MaxMemory

WrongMagic(who) == [who |-> who, msg |-> "wrong protocol magic"] \in logged

\* C13: when the negotiation frame received carries a magic other than
\* rpc_magic, the receiving connection logs "wrong protocol magic" and goes
\* to the error state without ever running: the server dispatches no request
\* of the connection, the client delivers no reply to any call.
C13_WrongMagic ==
    /\ [](WrongMagic("server") =>
            /\ s_pc \in {"exited", "stopping", "stopped"}
            /\ s_pc # "exited" => s_error
            /\ NoRequestDispatched)
    /\ [](WrongMagic("client") =>
            /\ c_pc \in {"exited", "stopping", "stopped"}
            /\ c_pc # "exited" => c_error
            /\ ~send_loop_started
            /\ NoReplyDelivered)
    /\ [][ /\ (s_pc = "negotiating" /\ s_pc' \notin {"negotiating", "absent"}
                  /\ c2s # <<>> /\ c2s[1].bytes # rpc_magic)
                 => (s_pc' = "exited" /\ WrongMagic("server")')
           /\ (c_pc = "negotiating" /\ c_pc' # "negotiating"
                  /\ s2c # <<>> /\ s2c[1].bytes # rpc_magic)
                 => (c_pc' = "exited" /\ WrongMagic("client")') ]_vars

\* the server has torn the connection down over a wrong magic while a
\* request of the foreign client sits unread on the stream
C13_Witness ==
    /\ WrongMagic("server")
    /\ s_pc = "stopped"
    /\ s_error
    /\ injected = 1
    /\ Len(c2s) >= 2

RECURSIVE WellFormedRecords(_)
WellFormedRecords(extra) ==
    \/ extra = <<>>
    \/ /\ Len(extra) >= 8
       /\ read_le(Take(Drop(extra, 4), 4)) <= Len(extra) - 8
       /\ WellFormedRecords(Drop(extra, 8 + read_le(Take(Drop(extra, 4), 4))))

\* a whole negotiation frame with the right magic and well-formed feature
\* records is at the head of the stream
GoodNegotiation(stream) ==
    /\ FrameReady(stream)
    /\ stream[1].bytes = rpc_magic
    /\ Len(stream[2].bytes) = stream[1].size
    /\ WellFormedRecords(stream[2].bytes)

\* C19: an endpoint starts running only by receiving a well-formed
\* negotiation frame with the right magic; until then the server reads and
\* dispatches no request and the client correlates no response and writes no
\* request.
C19_RunningAfterNegotiation ==
    /\ [](s_pc = "negotiating" => NoRequestDispatched)
    /\ [](c_pc \in {"connecting", "negotiating"} =>
            /\ NoReplyDelivered
            /\ ~send_loop_started
            /\ c_wr = None)
    /\ [][ /\ (s_pc' = "loop" /\ s_pc # "loop") =>
                  /\ s_pc = "negotiating"
                  /\ GoodNegotiation(c2s)
                  /\ c2s' = Drop(c2s, 2)
           /\ (c_pc' = "loop" /\ c_pc # "loop") =>
                  /\ c_pc = "negotiating"
                  /\ GoodNegotiation(s2c)
                  /\ s2c' = Drop(s2c, 2)
           /\ s_pc = "negotiating" =>
                  (c2s' = c2s \/ s_pc' # "negotiating" \/ Len(c2s') > Len(c2s))
           /\ c_pc \in {"connecting", "negotiating"} =>
                  (s2c' = s2c \/ c_pc' \notin {"connecting", "negotiating"} \/ Len(s2c') > Len(s2c)) ]_vars

\* both endpoints are running and a call has been answered
C19_Witness ==
    /\ s_pc = "loop"
    /\ c_pc = "loop"
    /\ stats.replied = 1
    /\ logged = {}

\* request i was read for a registered no_wait handler
NoWaitRequest(i) ==
    /\ rq[i].type \in DOMAIN _handlers
    /\ _handlers[rq[i].type].style = "no_wait"

\* C14: for a request handled by a no_wait handler the server queues no
\* response frame, whether the handler succeeds or fails; a failure is
\* logged, and once the handler has resolved the resources admitted for the
\* request have been released.
C14_NoWaitHandler ==
    \A i \in Ids :
        NoWaitRequest(i) =>
            /\ responded[i] = <<>>
            /\ \A j \in 1..Len(s_outq) : Abs(s_outq[j].id) # i
            /\ rq[i].outcome # "none" =>
                  /\ ~rq[i].held
                  /\ rq[i].stage = "done"
                  /\ rq[i].outcome # "value" =>
                         [who |-> "server", msg |-> "exception in no_wait handler ignored"] \in logged

NoWaitCall(i) == Issued(i) /\ calls[i].style = "no_wait"

\* the request frame of call i is still queued or being written
Unsent(i) ==
    \/ \E j \in 1..Len(c_outq) : c_outq[j].id = i
    \/ c_wr # None /\ c_wr.id = i

ClientReadsOrphan == ClientReadsFrame /\ Abs(s2c[1].id) \notin outstanding

\* C16: reading a response frame with a positive id that has no entry in
\* the pending map changes nothing: no future, not the pending map, not the
\* statistics, not the error flag; the read loop goes on.
C16_OrphanPositive ==
    [][ (ClientReadsOrphan /\ s2c[1].id > 0) =>
            /\ UNCHANGED <<fut, nset, outstanding, stats, logged>>
            /\ c_error' = FALSE
            /\ c_pc' = "loop" ]_vars

\* the reply to a call that had timed out was written and has been read: it
\* left no trace on the client
C16_Witness ==
    /\ fut[1] = Ready("timeout_error", <<>>)
    /\ Len(responded[1]) = 1
    /\ responded[1][1].id = 1
    /\ rq[1].stage = "done"
    /\ s2c = <<>>
    /\ stats = [replied |-> 0, exception_received |-> 0]
    /\ c_pc = "loop"
    /\ ~c_error

\* the payload is an UNKNOWN_VERB record that can be decoded
DecodesAsUnknownVerb(payload) ==
    /\ Len(payload) >= 16
    /\ RecordKind(payload) = UNKNOWN_VERB

UnknownVerbIgnored == [who |-> "client", msg |-> "unknown verb exception ignored"] \in logged

\* C17: reading a response frame with a negative id whose absolute value
\* has no pending entry completes no future; if the payload decodes as
\* UNKNOWN_VERB the frame is logged and ignored, otherwise the connection
\* goes to the error state.
C17_OrphanNegative ==
    [][ (ClientReadsOrphan /\ s2c[1].id < 0) =>
            /\ UNCHANGED <<fut, nset, outstanding, stats, c_pc>>
            /\ IF DecodesAsUnknownVerb(s2c[2].bytes)
               THEN c_error' = FALSE /\ UnknownVerbIgnored'
               ELSE c_error' = TRUE /\ logged' = logged ]_vars

\* the unknown-verb reply to a no_wait call was read, logged and ignored
C17_Witness ==
    /\ NoWaitCall(1)
    /\ calls[1].type = 9
    /\ UnknownVerbIgnored
    /\ s2c = <<>>
    /\ c_pc = "loop"
    /\ ~c_error

\* the message ids of the request frames on the way to the server, oldest
\* first: those whose header is on the stream, then those still queued
RECURSIVE InFlightIds(_)
InFlightIds(stream) ==
    IF stream = <<>> THEN <<>>
    ELSE (IF Head(stream).part = "hdr" /\ Head(stream).id # 0
          THEN <<Head(stream).id>> ELSE <<>>) \o InFlightIds(Tail(stream))

RECURSIVE QueuedIds(_)
QueuedIds(queue) ==
    IF queue = <<>> THEN <<>> ELSE <<Head(queue).id>> \o QueuedIds(Tail(queue))

IssueOrder(ids) == \A j \in 1..(Len(ids) - 1) : ids[j] < ids[j + 1]

\* C18: the server reads request frames in the order in which the client
\* issued the calls: the frames read, those on the stream and those queued
\* are, in that order, in issue order, and a frame is read only when no
\* frame of an earlier call is still on its way.
C18_RequestOrder ==
    /\ [] IssueOrder(observed \o InFlightIds(c2s) \o QueuedIds(c_outq))
    /\ [][ observed' # observed =>
              /\ Len(observed') = Len(observed) + 1
              /\ SubSeq(observed', 1, Len(observed)) = observed
              /\ \A i \in Ids :
                    (Issued(i) /\ i < observed'[Len(observed')]) =>
                        /\ \A j \in 1..Len(c2s') : c2s'[j].id # i
                        /\ \A j \in 1..Len(c_outq) : c_outq[j].id # i ]_vars

\* two calls were queued one behind the other and the server has read the
\* frames of both, the first call's first
C18_Witness ==
    /\ Issued(1) /\ Issued(2)
    /\ observed = <<1, 2>>
    /\ InFlightIds(c2s) \o QueuedIds(c_outq) = <<>>

Before(events, a, b) ==
    \A j \in 1..Len(events) : events[j] = b => \E k \in 1..(j - 1) : events[k] = a

\* C20: a server connection is removed from the server's connection set
\* only after its send loop has stopped and its stopped signal has been
\* fulfilled.
C20_RemovedAfterStopped ==
    /\ Before(teardown, "send_loop_stopped", "conns_erase")
    /\ Before(teardown, "stopped_set_value", "conns_erase")
    /\ "conn" \notin _conns => _stopped

\* the handler started for request i has not finished: it is running, or its
\* reply is not yet written and its resources not yet released
InFlight(i) == rq[i].stage \in {"handler", "replying"}

\* C21: a server connection fulfils its stopped signal only after every
\* handler that was started for a request of that connection has finished
\* (its reply sent or dropped and its resources released).
C21_StoppedAfterHandlers ==
    _stopped => \A i \in Ids : ~InFlight(i) /\ (rq[i].stage = "done" => ~rq[i].held)

\* the server's read loop takes, in this step, a request frame whose payload
\* does not decode as the arguments the handler of its type declares
ServerReadsUndecodable ==
    /\ s_pc = "loop" /\ ~s_error /\ cur = None
    /\ FrameReady(c2s)
    /\ c2s' = Drop(c2s, 2)
    /\ c2s[1].type \in DOMAIN _handlers
    /\ ~unmarshall(_handlers[c2s[1].type].args, c2s[2].bytes).ok

\* the client's read loop takes, in this step, the reply to a pending call
\* whose payload does not decode: as the call's return types when the id is
\* positive, as an exception record when it is negative
ClientReadsUndecodable ==
    /\ ClientReadsFrame
    /\ Abs(s2c[1].id) \in outstanding
    /\ IF s2c[1].id > 0
       THEN ~unmarshall(calls[s2c[1].id].ret, s2c[2].bytes).ok
       ELSE unmarshal_exception(s2c[2].bytes).thrown

\* C22: a failure to unmarshal a payload poisons the connection it arrived
\* on.  On the server the read loop ends and the connection goes to the
\* error state and is torn down; the handler is not invoked and no reply is
\* queued.  On the client the read loop ends, the connection goes to the
\* error state, and the call whose reply could not be decoded completes with
\* closed_error.
C22_UnmarshalFailure ==
    /\ [](\A i \in Ids : rq[i].stage = "badargs" =>
             /\ responded[i] = <<>>
             /\ rq[i].outcome = "none"
             /\ ~rq[i].held
             /\ s_pc \in {"exited", "stopping", "stopped"}
             /\ s_pc # "exited" => s_error)
    /\ [](c_pc \in {"stopping", "stopped"} => c_error)
    /\ [][ /\ ServerReadsUndecodable =>
                /\ rq'[c2s[1].id].stage = "badargs"
                /\ s_pc' = "exited"
                /\ UNCHANGED <<s_outq, responded, resources_available>>
           /\ \A i \in Ids : rq[i].stage = "badargs" => rq'[i] = rq[i]
           /\ s_pc = "exited" => s_pc' \in {"exited", "stopping"}
           /\ ClientReadsUndecodable =>
                /\ c_pc' = "exited"
                /\ fut'[Abs(s2c[1].id)] = Ready("closed_error", <<>>)
           /\ c_pc = "exited" => c_pc' \in {"exited", "stopping"} ]_vars

\* an exception record with a complete header and a kind that is neither
\* USER nor UNKNOWN_VERB
UnknownKindRecord(payload) ==
    /\ Len(payload) >= 8
    /\ RecordKind(payload) \notin {USER, UNKNOWN_VERB}

ClientReadsUnknownKind ==
    /\ ClientReadsFrame
    /\ s2c[1].id < 0
    /\ UnknownKindRecord(s2c[2].bytes)

\* C23 (as stated): a negative-id response whose exception record has a
\* kind other than USER or UNKNOWN_VERB moves the client connection to the
\* error state, whether or not its id has a pending entry.
C23_UnknownKindIsError ==
    [][ ClientReadsUnknownKind => (c_error' \/ c_pc' # "loop") ]_vars

\* C23 (amended): such a response moves the client connection to the error
\* state when its id has no pending entry; when its id has a pending entry
\* the call completes with unknown_exception_error, its entry is removed and
\* the connection stays out of the error state.
C23_UnknownKind ==
    [][ ClientReadsUnknownKind =>
            LET key == Abs(s2c[1].id)
            IN  IF key \in outstanding
                THEN /\ fut'[key] = Ready("unknown_exception_error", <<>>)
                     /\ \A i \in Ids \ {key} : fut'[i] = fut[i]
                     /\ outstanding' = outstanding \ {key}
                     /\ c_error' = FALSE
                     /\ c_pc' = "loop"
                ELSE /\ c_error' = TRUE
                     /\ UNCHANGED <<fut, outstanding>> ]_vars

\* a pending call was completed by a record of an unknown kind and the
\* connection is still running
C23_Witness ==
    /\ injected = 1
    /\ fut[1] = Ready("unknown_exception_error", <<>>)
    /\ s2c = <<>>
    /\ c_pc = "loop"
    /\ ~c_error

\* C24: each server connection has its own memory budget initialised to
\* max_memory: requests admitted on another connection of the same server
\* never reduce the resources available to this connection, and never delay
\* the dispatch of its requests (a request of this connection waits only
\* while the weights this connection holds leave too little of max_memory).
C24_OwnBudget ==
    /\ [](resources_available = MaxMemory - HeldSum)
    /\ [](cur # None => cur.weight > MaxMemory - HeldSum)
    /\ [][other_held' > other_held => resources_available' = resources_available]_vars

\* both peers advertised COMPRESS and agree on an algorithm: the client is
\* configured with a factory, so is the server, and they offer an algorithm
\* in common
BothAdvertiseAndAgree ==
    /\ c_factory # None
    /\ s_factory # None
    /\ \E j \in 1..Len(c_factory.supported), k \in 1..Len(s_factory.supported) :
          c_factory.supported[j] = s_factory.supported[k]

\* a chunk of a negotiation frame, or of a request or response frame
IsNegotiation(chunk) == chunk.id = 0
Wrapped(chunk) == chunk.env # None

\* C25: after negotiation both endpoints agree on whether compression is
\* on: each has a compressor exactly when both peers advertised COMPRESS and
\* agreed; every request and response frame on the streams is in the
\* compressed envelope exactly in that case, and in the envelope of the
\* compressor its reader holds; negotiation frames are never in an envelope,
\* and no read fails for want of an envelope or for one too many.
C25_CompressionAgreed ==
    /\ [](c_pc = "loop" => ((c_compressor # None) <=> BothAdvertiseAndAgree))
    /\ [](s_pc = "loop" => ((s_compressor # None) <=> BothAdvertiseAndAgree))
    /\ []((c_pc = "loop" /\ s_pc = "loop") => c_compressor = s_compressor)
    /\ [](\A j \in 1..Len(c2s) :
             IF IsNegotiation(c2s[j]) THEN ~Wrapped(c2s[j])
             ELSE /\ Wrapped(c2s[j]) <=> BothAdvertiseAndAgree
                  /\ c2s[j].env = s_compressor)
    /\ [](\A j \in 1..Len(s2c) :
             IF IsNegotiation(s2c[j]) THEN ~Wrapped(s2c[j])
             ELSE /\ Wrapped(s2c[j]) <=> BothAdvertiseAndAgree
                  /\ c_pc = "loop" => s2c[j].env = c_compressor)
    /\ [][ /\ (ClientReadsFrame /\ c_error') => s2c[1].env = c_compressor
           /\ (s_pc = "loop" /\ ~s_error /\ cur = None /\ FrameReady(c2s) /\ c2s' = Drop(c2s, 2))
                 => (c2s[1].env = s_compressor /\ observed' # observed) ]_vars

\* compression is on, a call was made and answered, and both frames went
\* through the envelope
C25_Witness ==
    /\ BothAdvertiseAndAgree
    /\ c_compressor # None
    /\ s_compressor = c_compressor
    /\ \E i \in Ids : /\ fut[i] = Ready("value", <<2>>)
                      /\ responded[i] # <<>>
    /\ c_pc = "loop"
    /\ s_pc = "loop"

\* the server has read request i and decoded its arguments
Decoded(i) == rq[i].stage \notin {"none", "badargs", "waiting"}

\* C26: a declared optional parameter decodes as the empty optional, and
\* consumes nothing, when no payload bytes remain, and as a present value
\* when bytes remain.  A client that sends (x, y) to the handler declared
\* (x, y, optional z) is not refused: the handler sees x and y unchanged and
\* z empty, and the reply completes the call with the handler's value; a
\* client that sends (x, y, z) has z decoded as present.
C26_OptionalParameter ==
    /\ unmarshal_one("opt_int", <<>>) = [ok |-> TRUE, val |-> <<>>, rest |-> <<>>]
    /\ \A i \in Ids : (Issued(i) /\ calls[i].type = 3) =>
          LET sent == calls[i].args
          IN  /\ (rq[i].stage = "badargs") => Len(sent) < 2
              /\ Decoded(i) =>
                    /\ Len(sent) >= 2
                    /\ Len(rq[i].args) = 3
                    /\ rq[i].args[1] = sent[1]
                    /\ rq[i].args[2] = sent[2]
                    /\ rq[i].args[3] = IF Len(sent) = 2 THEN <<>> ELSE <<sent[3]>>
              /\ (fut[i].st = "ready" /\ fut[i].kind = "value") =>
                    /\ Len(sent) >= 2
                    /\ fut[i].val = <<(sent[1] + 1) % 256>>

\* a call with two arguments to the handler declared with three succeeded,
\* the handler having seen the third as empty
C26_Witness ==
    /\ Issued(1)
    /\ calls[1].type = 3
    /\ calls[1].args = <<1, 2>>
    /\ rq[1].args = <<1, 2, <<>>>>
    /\ rq[1].outcome = "value"
    /\ fut[1] = Ready("value", <<2>>)

\* call i was completed with a value
Succeeded(i) == Issued(i) /\ fut[i].st = "ready" /\ fut[i].kind = "value"

\* C27: for every wait-mode call that succeeds, the handler of the request
\* with the call's id resolved with a value, each argument it received under
\* the type the client sent it with equals the argument the client passed,
\* and the call's future holds the value that handler returned.
C27_RoundTrip ==
    \A i \in Ids : (Succeeded(i) /\ calls[i].style = "wait") =>
        LET sent == calls[i].args
            declared == _handlers[rq[i].type].args
        IN  /\ rq[i].type = calls[i].type
            /\ rq[i].outcome = "value"
            /\ Len(rq[i].args) = Len(declared)
            /\ \A k \in 1..Len(declared) :
                   declared[k] = "int" => (k <= Len(sent) /\ rq[i].args[k] = sent[k])
            /\ fut[i].val = func(rq[i].args)

\* two calls with different arguments and different handlers, each completed
\* with its own handler's value
C27_Witness ==
    /\ message_id = 2
    /\ calls[1].args = <<1, 2>>
    /\ calls[2].args = <<255>>
    /\ rq[1].args = <<1, 2, <<>>>>
    /\ rq[2].args = <<255>>
    /\ Len(responded[1]) = 1
    /\ Len(responded[2]) = 1
    /\ fut[1] = Ready("value", <<2>>)
    /\ fut[2] = Ready("value", <<0>>)

\* the client's read loop takes, in this step, a response frame whose
\* absolute id has a pending entry
ClientReadsReply ==
    /\ ClientReadsFrame
    /\ Abs(s2c[1].id) \in outstanding

\* C28: replies may arrive in any order: each response frame whose absolute
\* id has a pending entry completes the call that was issued with that id,
\* removes that call's entry, and removes or completes no other pending
\* call.
C28_RepliesInAnyOrder ==
    [][ClientReadsReply =>
          LET key == Abs(s2c[1].id)
          IN  /\ fut[key].st = "pending"
              /\ fut'[key].st = "ready"
              /\ fut'[key].kind # "abandoned"
              /\ nset'[key] = nset[key] + 1
              /\ outstanding' = outstanding \ {key}
              /\ \A j \in Ids \ {key} : fut'[j] = fut[j] /\ nset'[j] = nset[j]]_vars

\* a request frame is ready for the read loop of a running connection
RequestReady == s_pc = "loop" /\ ~s_error /\ FrameReady(c2s)

\* C29: while a request waits for admission the read loop of its connection
\* reads no further request frame, and the waiting request has not reached
\* its handler; once no request is waiting the read loop reads the next
\* frame whatever handlers are still running, so handlers of one connection
\* run at the same time.
C29_ReadLoopAdmission ==
    /\ [](cur # None => rq[cur.id].stage = "waiting")
    /\ [](\A i \in Ids : rq[i].stage = "waiting" => (cur # None /\ cur.id = i))
    /\ []((RequestReady /\ cur = None) => ENABLED ServerRead)
    /\ [][cur # None => observed' = observed]_vars

\* the second request was read and admitted while the handler of the first
\* was running
C29_Witness ==
    /\ observed = <<1, 2>>
    /\ cur = None
    /\ rq[1].stage = "handler"
    /\ rq[2].stage = "handler"

\* request i has been read and not yet admitted, or not read at all
NotAdmitted(i) == rq[i].stage \in {"none", "waiting"}

\* C30: once the reply gate is closed, a request admitted afterwards reaches
\* no handler and gets no reply, whether its verb is registered or unknown;
\* a request whose handler was started before the gate was closed is not
\* dropped: its handler remains free to resolve, and resolving it finishes
\* the request.
C30_ClosedGate ==
    /\ [](\A i \in Ids : rq[i].stage = "dropped" =>
             /\ gate_closed
             /\ responded[i] = <<>>
             /\ rq[i].outcome = "none")
    /\ [](\A i \in Ids : rq[i].stage = "handler" => ENABLED HandlerDone(i, "value"))
    /\ [][\A i \in Ids :
             /\ (gate_closed /\ NotAdmitted(i)) =>
                    /\ rq'[i].stage \in {"none", "waiting", "dropped"}
                    /\ responded'[i] = <<>>
             /\ rq[i].stage = "dropped" => rq'[i] = rq[i]
             /\ (gate_closed /\ rq[i].stage = "handler") =>
                    rq'[i].stage \in {"handler", "replying", "done", "lost"}]_vars

\* the handler of request 1 resolved after the gate was closed, and request
\* 2, for an unknown verb, was admitted after that and dropped
C30_Witness ==
    /\ gate_closed
    /\ rq[1].stage = "done"
    /\ rq[1].outcome = "value"
    /\ rq[1].err
    /\ rq[2].stage = "dropped"
    /\ rq[2].type = 9
    /\ responded[2] = <<>>

\* request i names a registered handler
Registered(i) == Issued(i) /\ rq[i].stage # "none" /\ rq[i].type \in DOMAIN _handlers

\* the weight request i waited for has been deducted
Admitted(i) == rq[i].stage \in {"handler", "replying", "done", "dropped", "lost"}

\* what unmarshall makes of the payload call i was sent with
DecodedArgs(i) == unmarshall(_handlers[rq[i].type].args, marshall(calls[i].args))

\* C31 as claimed: a request with a registered handler is admitted before
\* its arguments are unmarshalled, so every request whose arguments have been
\* through unmarshall, decoded or not, has had its weight deducted.
C31_AdmitThenUnmarshal ==
    \A i \in Ids : Registered(i) => Admitted(i)

\* C31, amended: for a request with a registered handler the server
\* estimates the weight and unmarshals the arguments before it waits for
\* admission, and invokes the handler only after both steps.  A request whose
\* arguments do not decode is never admitted and takes nothing from the
\* budget; a request waiting for admission has its arguments decoded; a
\* request in its handler has its arguments decoded and its weight deducted.
C31_UnmarshalThenAdmit ==
    /\ [](\A i \in Ids : Registered(i) =>
             LET weight == estimate_request_size(Len(marshall(calls[i].args)))
             IN  /\ rq[i].stage = "badargs" =>
                       /\ ~DecodedArgs(i).ok
                       /\ ~rq[i].held
                       /\ rq[i].weight = 0
                       /\ rq[i].outcome = "none"
                 /\ rq[i].stage = "waiting" =>
                       /\ cur # None
                       /\ cur.id = i
                       /\ DecodedArgs(i).ok
                       /\ cur.args = DecodedArgs(i).vals
                       /\ cur.weight = weight
                       /\ ~rq[i].held
                 /\ rq[i].stage = "handler" =>
                       /\ DecodedArgs(i).ok
                       /\ rq[i].args = DecodedArgs(i).vals
                       /\ rq[i].held
                       /\ rq[i].weight = weight)
    /\ [][\A i \in Ids :
             /\ (rq[i].stage # "badargs" /\ rq'[i].stage = "badargs") =>
                    resources_available' = resources_available
             /\ (rq[i].stage # "handler" /\ rq'[i].stage = "handler") =>
                    resources_available' = resources_available - rq'[i].weight
             /\ rq[i].stage = "badargs" => rq'[i] = rq[i]]_vars

\* request 1 is in its handler, admitted with the weight of its three
\* bytes; request 2, whose single byte does not decode as two integers, was
\* refused without admission
C31_Witness ==
    /\ message_id = 2
    /\ calls[1].args = <<2, 1, 3>>
    /\ rq[1].stage = "handler"
    /\ rq[1].held
    /\ calls[2].args = <<1>>
    /\ calls[2].type = 3
    /\ rq[2].stage = "badargs"
    /\ resources_available = MaxMemory - estimate_request_size(3)

\* the client's read loop takes, in this step, a negative-id response for a
\* pending call whose exception record is too short to decode
ClientReadsShortRecord ==
    /\ ClientReadsReply
    /\ s2c[1].id < 0
    /\ unmarshal_exception(s2c[2].bytes).thrown

\* C32: a negative-id response for a pending call whose exception record is
\* too short to decode completes the call's future with closed_error and
\* ends the read loop, so that the connection moves to the error state; the
\* call is never left without a result.
C32_ShortExceptionRecord ==
    /\ [](\A i \in Ids : fut[i].kind # "abandoned")
    /\ [][ClientReadsShortRecord =>
             /\ fut'[Abs(s2c[1].id)] = Ready("closed_error", <<>>)
             /\ nset'[Abs(s2c[1].id)] = 1
             /\ c_pc' = "exited"]_vars

\* the header chunk of a request frame written in the 28-byte layout
HasExpiration(chunk) == chunk.expire # None

\* the server's read loop takes a request frame off the stream in this step
ServerReadsFrame ==
    /\ s_pc = "loop"
    /\ ~s_error
    /\ cur = None
    /\ FrameReady(c2s)
    /\ c2s' = Drop(c2s, 2)

\* C33: after a successful negotiation the client's and the server's
\* timeout_negotiated flags are equal, and true exactly when the client
\* requested TIMEOUT; every request header on the stream is in the layout the
\* server reads (with the expiration field exactly when the flag is set),
\* and no request frame is misread.
C33_TimeoutAgreed ==
    /\ [](s_pc = "loop" => (s_timeout_negotiated <=> send_timeout_data))
    /\ [](send_loop_started =>
             /\ c_timeout_negotiated <=> send_timeout_data
             /\ c_timeout_negotiated <=> s_timeout_negotiated)
    /\ [](\A j \in 1..Len(c2s) :
             IF IsNegotiation(c2s[j]) \/ c2s[j].part = "body" THEN ~HasExpiration(c2s[j])
             ELSE /\ HasExpiration(c2s[j]) <=> send_timeout_data
                  /\ HasExpiration(c2s[j]) <=> s_timeout_negotiated)
    /\ [][ServerReadsFrame =>
             /\ HasExpiration(c2s[1]) <=> s_timeout_negotiated
             /\ observed' = Append(observed, c2s[1].id)
             /\ s_error' = s_error]_vars

\* the client asked for TIMEOUT, both flags are set, and a call whose
\* request went out with the expiration field was handled and answered
C33_Witness ==
    /\ send_timeout_data
    /\ c_timeout_negotiated
    /\ s_timeout_negotiated
    /\ observed = <<1>>
    /\ rq[1].stage = "done"
    /\ fut[1] = Ready("value", <<2>>)
====
